---------------------------- MODULE Spec2Model ----------------------------
(***************************************************************************)
(* A model of gas_lift_choke_optimization.py: the GasLiftChokeOptimizer    *)
(* object (two datasets, two fitted surrogates), the process-wide numpy    *)
(* random generator seeded at import, and the six public operations        *)
(* generate_*, train_*, optimize_*.                                        *)
(*                                                                         *)
(* Numbers are fixed-point integers.  Gas rates and oil production are in  *)
(* tenths, flow rates in thousandths.  The grid of np.linspace(a, b, num)  *)
(* is kept exactly, as numerators over the common denominator num - 1.     *)
(***************************************************************************)
EXTENDS Integers, Sequences, FiniteSets, TLC

VARIABLES
    gas_lift_model,   \* self.gas_lift_model: None or <<surrogate>>
    choke_model,      \* self.choke_model:    None or <<surrogate>>
    gas_lift_data,    \* self.gas_lift_data:  None or <<rows>>
    choke_data,       \* self.choke_data:     None or <<rows>>
    rng,              \* state of the global generator behind np.random
    call,             \* the last call made on the object and its arguments
    result,           \* what the last optimize call returned, None otherwise
    err               \* class of the exception the last call raised, "" if none

vars == <<gas_lift_model, choke_model, gas_lift_data, choke_data, rng,
          call, result, err>>

\* The state of the optimizer object and of the generator, without the
\* record of the last call.
store == <<gas_lift_model, choke_model, gas_lift_data, choke_data, rng>>

----------------------------------------------------------------------------
\* Bounds of the model.

\* Largest number of rows a generate call is asked for.
MaxN == 2

----------------------------------------------------------------------------
\* Python's None and a present value, as sequences of length 0 and 1.

None == << >>

Some(x) == <<x>>

----------------------------------------------------------------------------
\* The global random generator (np.random.seed(42), then draws in call order).
\* MT19937 is stood in for by a full-period linear congruential generator:
\* what matters is that it is one process-wide deterministic stream.

Seed == 42

Period == 4

seed(s) == s % Period

next_state(s) == (5 * s + 3) % Period

\* The state k draws after s.  The stream repeats after Period draws.
RECURSIVE advance(_, _)
advance(s, k) ==
    IF k % Period = 0 THEN s ELSE advance(next_state(s), (k % Period) - 1)

\* n successive raw outputs of the generator starting in state s.
random_sample(s, n) == [i \in 1..n |-> advance(s, i)]

\* np.random.uniform(low, high, n): each raw output scaled into [low, high).
uniform(low, high, s, n) ==
    [i \in 1..n |-> low + ((high - low) * random_sample(s, n)[i]) \div Period]

\* np.random.normal(loc, scale, n): the raw outputs spread over +-3 scale.
normal(loc, scale, s, n) ==
    [i \in 1..n |->
        loc + (3 * scale * (2 * random_sample(s, n)[i] - (Period - 1))) \div Period]

----------------------------------------------------------------------------
\* Numeric helpers.

\* np.sqrt on the integers of the model: the integer square root.
sqrt(x) == CHOOSE r \in 0..x : r * r <= x /\ (r + 1) * (r + 1) > x

\* np.maximum(a, floor), elementwise.
maximum(a, floor) == [i \in 1..Len(a) |-> IF a[i] >= floor THEN a[i] ELSE floor]

----------------------------------------------------------------------------
\* generate_gas_lift_data: the columns are drawn one whole column after the
\* other, in the order the source evaluates them.

\* oil before the clamp (line 22), in tenths.
gas_lift_raw(s, n) ==
    LET a    == uniform(1000, 4000, s, n)
        b    == uniform(100, 800, advance(s, n), n)
        gas  == uniform(5, 50, advance(s, 2 * n), n)
        wc   == uniform(0, 95, advance(s, 3 * n), n)
        eps  == normal(0, 50, advance(s, 4 * n), n)
    IN  [i \in 1..n |->
            [gas_injection_rate |-> gas[i],
             pressure_diff      |-> a[i] - b[i],
             water_cut          |-> wc[i],
             oil_production     |->
                 (a[i] - b[i]) + 50 * gas[i] - 20 * wc[i] + 10 * eps[i]]]

\* The clamp with the floor at zero instead of 10.
gas_lift_clamp_at_zero(oil) == maximum(oil, 0)

\* oil = np.maximum(oil, 10) (line 23): 10 is 100 tenths.
gas_lift_clamp(oil) == maximum(oil, 100)

gas_lift_frame(s, n) ==
    LET raw == gas_lift_raw(s, n)
        oil == gas_lift_clamp([i \in 1..n |-> raw[i].oil_production])
    IN  [i \in 1..n |-> [raw[i] EXCEPT !.oil_production = oil[i]]]

\* flow before the clamp (line 39), in thousandths.
choke_raw(s, n) ==
    LET size == uniform(8, 64, s, n)
        a    == uniform(500, 3000, advance(s, n), n)
        b    == uniform(50, 500, advance(s, 2 * n), n)
        glr  == uniform(100, 2000, advance(s, 3 * n), n)
        eps  == normal(0, 50, advance(s, 4 * n), n)
    IN  [i \in 1..n |->
            [choke_size |-> size[i],
             delta_p    |-> a[i] - b[i],
             glr        |-> glr[i],
             flow_rate  |->
                 size[i] * sqrt(a[i] - b[i]) * (1000 + glr[i]) + 1000 * eps[i]]]

\* flow = np.maximum(flow, 10) (line 40): 10 is 10000 thousandths.
choke_clamp(flow) == maximum(flow, 10000)

choke_frame(s, n) ==
    LET raw  == choke_raw(s, n)
        flow == choke_clamp([i \in 1..n |-> raw[i].flow_rate])
    IN  [i \in 1..n |-> [raw[i] EXCEPT !.flow_rate = flow[i]]]

\* The arguments a call does not take.
NoCtx == [none |-> 0]

NoRange == <<0, 0>>

Call(op, n, ctx, range) == [op |-> op, n |-> n, ctx |-> ctx, range |-> range]

generate_gas_lift_data(n) ==
    /\ gas_lift_data' = Some(gas_lift_frame(rng, n))
    /\ rng' = advance(rng, 5 * n)
    /\ call' = Call("generate_gas_lift_data", n, NoCtx, NoRange)
    /\ result' = None
    /\ err' = ""
    /\ UNCHANGED <<gas_lift_model, choke_model, choke_data>>

generate_choke_data(n) ==
    /\ choke_data' = Some(choke_frame(rng, n))
    /\ rng' = advance(rng, 5 * n)
    /\ call' = Call("generate_choke_data", n, NoCtx, NoRange)
    /\ result' = None
    /\ err' = ""
    /\ UNCHANGED <<gas_lift_model, choke_model, gas_lift_data>>

----------------------------------------------------------------------------
\* train_test_split(X, y, test_size=0.2, random_state=42), as sklearn sizes it:
\* n_test = ceil(0.2 * n), n_train = n - n_test, ValueError when n_train = 0.

n_test(n) == (n + 4) \div 5

n_train(n) == n - n_test(n)

\* The shuffle of a private generator seeded with random_state: a fixed
\* permutation of 1..n for each n (here the rotation by the seed).
permutation(n, random_state) == [i \in 1..n |-> ((i + random_state) % n) + 1]

\* The row indices of the held-out and of the training partition.
train_test_split(n, random_state) ==
    LET p == permutation(n, random_state)
    IN  [test  |-> {p[i] : i \in 1..n_test(n)},
         train |-> {p[i] : i \in (n_test(n) + 1)..n}]

----------------------------------------------------------------------------
\* The fitted regressors.  sklearn's tree ensembles predict a sum of
\* piecewise-constant trees; a surrogate is a sequence of stumps
\* (feature, threshold, value at or below it, value above it).

stump(f, t, l, r) == [feature |-> f, threshold |-> t, left |-> l, right |-> r]

\* Predictors RandomForestRegressor().fit may return: the estimator is
\* built without random_state, so the fit is not a function of the data.
\* A rising step, a plateau in the middle of the range that also depends on
\* the context, and a predictor that ignores the control.
GasSurrogates ==
    { <<stump("gas_injection_rate", 20, 10, 30)>>,
      <<stump("gas_injection_rate", 20, 0, 20),
        stump("gas_injection_rate", 35, 0, -30),
        stump("pressure_diff", 2500, 0, 5)>>,
      <<stump("water_cut", 50, 40, 10)>> }

\* Predictors GradientBoostingRegressor().fit may return.
ChokeSurrogates ==
    { <<stump("choke_size", 30, 100, 300)>>,
      <<stump("choke_size", 20, 0, 200),
        stump("choke_size", 50, 0, -300),
        stump("delta_p", 1500, 0, 50)>>,
      <<stump("glr", 1000, 400, 100)>> }

\* Both estimators are created with default arguments: 100 trees, each
\* seeded by a draw from the global generator.  (100 is a multiple of
\* Period: the stand-in generator is back in the same state after a fit.)
n_estimators == 100

\* The rows of a frame without its target column: X = data.drop(target).
drop(rows, target) ==
    [i \in 1..Len(rows) |->
        [f \in DOMAIN rows[i] \ {target} |-> rows[i][f]]]

train_gas_lift_model ==
    /\ call' = Call("train_gas_lift_model", 0, NoCtx, NoRange)
    /\ result' = None
    /\ UNCHANGED <<choke_model, gas_lift_data, choke_data>>
    /\ IF gas_lift_data = None
       THEN \* None has no attribute 'drop'
            /\ err' = "AttributeError"
            /\ UNCHANGED <<gas_lift_model, rng>>
       ELSE LET X == drop(gas_lift_data[1], "oil_production")
                n == Len(X)
            IN  IF n_train(n) = 0
                THEN \* train_test_split: the train set would be empty
                     /\ err' = "ValueError"
                     /\ UNCHANGED <<gas_lift_model, rng>>
                ELSE /\ \E m \in GasSurrogates : gas_lift_model' = Some(m)
                     /\ rng' = advance(rng, n_estimators)
                     /\ err' = ""

train_choke_model ==
    /\ call' = Call("train_choke_model", 0, NoCtx, NoRange)
    /\ result' = None
    /\ UNCHANGED <<gas_lift_model, gas_lift_data, choke_data>>
    /\ IF choke_data = None
       THEN /\ err' = "AttributeError"
            /\ UNCHANGED <<choke_model, rng>>
       ELSE LET X == drop(choke_data[1], "flow_rate")
                n == Len(X)
            IN  IF n_train(n) = 0
                THEN /\ err' = "ValueError"
                     /\ UNCHANGED <<choke_model, rng>>
                ELSE /\ \E m \in ChokeSurrogates : choke_model' = Some(m)
                     /\ rng' = advance(rng, n_estimators)
                     /\ err' = ""

----------------------------------------------------------------------------
\* np.linspace(start, stop, num): num points from start to stop inclusive.
\* Point i (from 0) is start + i * (stop - start) / (num - 1); the model
\* keeps the numerators over the denominator num - 1.  num = 1 gives [start].

Resolution == 100

Denom(num) == IF num > 1 THEN num - 1 ELSE 1

\* The grid one step late: it starts at the second point.
linspace_one_step_late(start, stop, num) ==
    [i \in 1..num |-> start * Denom(num) + i * (stop - start)]

linspace(start, stop, num) ==
    [i \in 1..num |-> start * Denom(num) + (i - 1) * (stop - start)]

\* model.predict on one row whose values are numerators over den.
predict(model, row, den) ==
    LET RECURSIVE sum(_)
        sum(k) ==
            IF k = 0 THEN 0
            ELSE sum(k - 1) +
                 (IF row[model[k].feature] <= model[k].threshold * den
                  THEN model[k].left ELSE model[k].right)
    IN  sum(Len(model))

\* The largest element of a non-empty array.
amax(a) == CHOOSE v \in {a[i] : i \in 1..Len(a)} : \A j \in 1..Len(a) : a[j] <= v

\* The index of the last occurrence of the largest element.
argmax_last(a) ==
    LET v == amax(a)
    IN  CHOOSE i \in 1..Len(a) : a[i] = v /\ \A j \in (i + 1)..Len(a) : a[j] # v

\* np.argmax: the index of the first occurrence of the largest element.
argmax(a) ==
    LET v == amax(a)
    IN  CHOOSE i \in 1..Len(a) : a[i] = v /\ \A j \in 1..(i - 1) : a[j] # v

\* What an optimize call returns: (x[best], preds[best], x, preds).
Result(xs, preds, best_idx) ==
    [x |-> xs[best_idx], y |-> preds[best_idx], xs |-> xs, preds |-> preds]

\* Lines 68-76 of optimize_gas_lift: what the call returns, or the exception
\* that ends it.
gas_lift_sweep(model, well_conditions, gas_range) ==
    LET gas_rates == linspace(gas_range[1], gas_range[2], Resolution)
        den == Denom(Resolution)
    IN  IF ~ ({"pressure_diff", "water_cut"} \subseteq DOMAIN well_conditions)
        THEN \* well_conditions[...] on a missing key
             [result |-> None, err |-> "KeyError"]
        ELSE IF model = None
        THEN \* None has no attribute 'predict'
             [result |-> None, err |-> "AttributeError"]
        ELSE LET df == [i \in 1..Resolution |->
                          [gas_injection_rate |-> gas_rates[i],
                           pressure_diff |-> well_conditions["pressure_diff"] * den,
                           water_cut |-> well_conditions["water_cut"] * den]]
                 preds == [i \in 1..Resolution |-> predict(model[1], df[i], den)]
                 best_idx == argmax(preds)
             IN  [result |-> Some(Result(gas_rates, preds, best_idx)), err |-> ""]

\* Lines 80-88 of optimize_choke.
choke_sweep(model, flow_conditions, choke_range) ==
    LET choke_sizes == linspace(choke_range[1], choke_range[2], Resolution)
        den == Denom(Resolution)
    IN  IF ~ ({"delta_p", "glr"} \subseteq DOMAIN flow_conditions)
        THEN [result |-> None, err |-> "KeyError"]
        ELSE IF model = None
        THEN [result |-> None, err |-> "AttributeError"]
        ELSE LET df == [i \in 1..Resolution |->
                          [choke_size |-> choke_sizes[i],
                           delta_p |-> flow_conditions["delta_p"] * den,
                           glr |-> flow_conditions["glr"] * den]]
                 preds == [i \in 1..Resolution |-> predict(model[1], df[i], den)]
                 best_idx == argmax(preds)
             IN  [result |-> Some(Result(choke_sizes, preds, best_idx)), err |-> ""]

\* optimize_gas_lift drawing from the global generator on the way.
optimize_gas_lift_drawing(well_conditions, gas_range) ==
    \E out \in {gas_lift_sweep(gas_lift_model, well_conditions, gas_range)} :
        /\ call' = Call("optimize_gas_lift", 0, well_conditions, gas_range)
        /\ result' = out.result
        /\ err' = out.err
        /\ rng' = advance(rng, 1)
        /\ UNCHANGED <<gas_lift_model, choke_model, gas_lift_data, choke_data>>

optimize_gas_lift(well_conditions, gas_range) ==
    \E out \in {gas_lift_sweep(gas_lift_model, well_conditions, gas_range)} :
        /\ call' = Call("optimize_gas_lift", 0, well_conditions, gas_range)
        /\ result' = out.result
        /\ err' = out.err
        /\ UNCHANGED store

optimize_choke(flow_conditions, choke_range) ==
    \E out \in {choke_sweep(choke_model, flow_conditions, choke_range)} :
        /\ call' = Call("optimize_choke", 0, flow_conditions, choke_range)
        /\ result' = out.result
        /\ err' = out.err
        /\ UNCHANGED store

----------------------------------------------------------------------------
\* The arguments the calls are tried with.

\* The demo's well_conditions and its default gas_range (0.5, 5.0), in tenths.
DemoWell == [pressure_diff |-> 2000, water_cut |-> 30]

DefaultGasRange == <<5, 50>>

\* The demo's flow_conditions and the default choke_range (8, 64).
DemoFlow == [delta_p |-> 1200, glr |-> 500]

DefaultChokeRange == <<8, 64>>

\* well_conditions: the demo's, another complete one, one without
\* water_cut, and one that also names the control field.
GasContexts ==
    { DemoWell,
      [pressure_diff |-> 3000, water_cut |-> 60],
      [pressure_diff |-> 2000],
      [pressure_diff |-> 2000, water_cut |-> 30, gas_injection_rate |-> 10] }

\* gas_range: the default, a sub-range, an empty and a reversed one.
GasRanges == { DefaultGasRange, <<10, 30>>, <<20, 20>>, <<50, 5>> }

FlowContexts ==
    { DemoFlow,
      [delta_p |-> 2000, glr |-> 1500],
      [glr |-> 500],
      [delta_p |-> 1200, glr |-> 500, choke_size |-> 16] }

ChokeRanges == { DefaultChokeRange, <<16, 48>>, <<32, 32>>, <<64, 8>> }

----------------------------------------------------------------------------
\* __init__ after the import-time np.random.seed(42).
Init ==
    /\ gas_lift_model = None
    /\ choke_model = None
    /\ gas_lift_data = None
    /\ choke_data = None
    /\ rng = seed(Seed)
    /\ call = Call("__init__", 0, NoCtx, NoRange)
    /\ result = None
    /\ err = ""

\* Any order of calls on one optimizer object; datasets of every size up to
\* MaxN, optimize with the demo's arguments.
Next ==
    \/ \E n \in 0..MaxN : generate_gas_lift_data(n)
    \/ \E n \in 0..MaxN : generate_choke_data(n)
    \/ train_gas_lift_model
    \/ train_choke_model
    \/ optimize_gas_lift(DemoWell, DefaultGasRange)
    \/ optimize_choke(DemoFlow, DefaultChokeRange)

Spec == Init /\ [][Next]_vars

\* Any order of calls; datasets of the smallest size train accepts, optimize
\* with every context and range above.
OptNext ==
    \/ generate_gas_lift_data(2)
    \/ generate_choke_data(2)
    \/ train_gas_lift_model
    \/ train_choke_model
    \/ \E wc \in GasContexts, r \in GasRanges : optimize_gas_lift(wc, r)
    \/ \E fc \in FlowContexts, r \in ChokeRanges : optimize_choke(fc, r)

OptSpec == Init /\ [][OptNext]_vars

----------------------------------------------------------------------------
\* Vocabulary of the properties.

OptimizeOps == {"optimize_gas_lift", "optimize_choke"}

\* The last call was an optimize call that returned a result.
Returned == call.op \in OptimizeOps /\ result # None

\* The fields a context must give and the control field it must not give.
Required(op) ==
    IF op = "optimize_gas_lift" THEN {"pressure_diff", "water_cut"}
    ELSE {"delta_p", "glr"}

Control(op) == IF op = "optimize_gas_lift" THEN "gas_injection_rate" ELSE "choke_size"

\* The returned curve has r points from a to b, evenly spaced, and the
\* returned control value is one of them, within [a, b].
GridShape(r) ==
    LET out == result[1]
        a   == call.range[1] * Denom(Resolution)
        b   == call.range[2] * Denom(Resolution)
    IN  /\ Len(out.xs) = r
        /\ Len(out.preds) = r
        /\ out.xs[1] = a
        /\ out.xs[Len(out.xs)] = b
        /\ \A i \in 1..(Len(out.xs) - 1) :
              out.xs[i + 1] - out.xs[i] = out.xs[2] - out.xs[1]
        /\ \E k \in 1..Len(out.xs) : out.x = out.xs[k]
        /\ a <= out.x /\ out.x <= b

----------------------------------------------------------------------------
\* C1: whenever optimize returns, the returned prediction is the maximum of
\* the returned curve, the returned control value is the grid point at the
\* index of that maximum, that index is the lowest one holding the maximum,
\* and on a grid that does not descend (low <= high) no grid point with the
\* maximal prediction has a lower control value than the returned one.
C1_ArgmaxFirstTie ==
    Returned =>
        LET out == result[1]
        IN  \E k \in 1..Len(out.preds) :
                /\ out.x = out.xs[k]
                /\ out.y = out.preds[k]
                /\ \A j \in 1..Len(out.preds) : out.preds[j] <= out.y
                /\ \A j \in 1..(k - 1) : out.preds[j] < out.y
                /\ call.range[1] <= call.range[2] =>
                      \A j \in 1..Len(out.preds) :
                          out.preds[j] = out.y => out.xs[j] >= out.x

\* An ascending grid on which several points tie for the maximum, other
\* points predict less, and the winner is not the first grid point.
C1_TieWitness ==
    /\ Returned
    /\ call.range[1] < call.range[2]
    /\ LET out == result[1]
       IN  /\ out.x # out.xs[1]
           /\ \E i \in 1..Len(out.preds) : out.preds[i] < out.y
           /\ \E j, k \in 1..Len(out.preds) :
                 j # k /\ out.preds[j] = out.y /\ out.preds[k] = out.y

\* C2, as amended: the resolution is the constant 100 of the source, not an
\* argument; for every range a < b the returned curve has exactly 100
\* points, starts at a, ends at b, is evenly spaced, and the returned
\* control value is one of its points, within [a, b].
C2_GridShape ==
    (Returned /\ call.range[1] < call.range[2]) => GridShape(Resolution)

\* An optimize call on a range a < b that returned a point strictly inside.
C2_GridWitness ==
    /\ Returned
    /\ call.range[1] < call.range[2]
    /\ call.range[1] * Denom(Resolution) < result[1].x
    /\ result[1].x < call.range[2] * Denom(Resolution)

\* C2 as stated: for every resolution r >= 1 the curve has exactly r points
\* from a to b.
C2_AnyResolution ==
    (Returned /\ call.range[1] < call.range[2]) =>
        \A r \in 1..Resolution : GridShape(r)

\* The last call was an optimize call on a trained surrogate.
OnTrained ==
    \/ call.op = "optimize_gas_lift" /\ gas_lift_model # None
    \/ call.op = "optimize_choke" /\ choke_model # None

\* The context of the last optimize call gives every required field and
\* not the control field.
ContextOk ==
    /\ Required(call.op) \subseteq DOMAIN call.ctx
    /\ Control(call.op) \notin DOMAIN call.ctx

\* C3: an optimize call with low >= high (on a trained surrogate, with a
\* well-formed context) fails with InvalidIntervalError and returns nothing.
C3_InvalidIntervalRejected ==
    (OnTrained /\ ContextOk /\ call.range[1] >= call.range[2]) =>
        (err = "InvalidIntervalError" /\ result = None)

\* C4: an optimize call (on a trained surrogate, with low < high) whose
\* context omits a required field, or names the control field, fails with
\* SchemaMismatchError and returns nothing.
C4_SchemaMismatchRejected ==
    (OnTrained /\ call.range[1] < call.range[2] /\ ~ ContextOk) =>
        (err = "SchemaMismatchError" /\ result = None)

\* The split of n rows has two non-empty partitions that are disjoint and
\* together cover the rows.
SplitOk(n) ==
    LET p == train_test_split(n, 42)
    IN  /\ p.train # {} /\ p.test # {}
        /\ p.train \cap p.test = {}
        /\ p.train \cup p.test = 1..n

\* C5: train on a dataset of fewer than 2 rows fails with
\* InsufficientDataError and leaves the stored model as it was; the split of
\* a dataset of 2 or more rows has two non-empty, disjoint, covering parts.
C5_TrainSmallRejected ==
    [][/\ (call'.op = "train_gas_lift_model" /\ gas_lift_data # None) =>
              LET n == Len(gas_lift_data[1])
              IN  /\ n < 2 => (err' = "InsufficientDataError"
                               /\ gas_lift_model' = gas_lift_model)
                  /\ n >= 2 => SplitOk(n)
       /\ (call'.op = "train_choke_model" /\ choke_data # None) =>
              LET n == Len(choke_data[1])
              IN  /\ n < 2 => (err' = "InsufficientDataError"
                               /\ choke_model' = choke_model)
                  /\ n >= 2 => SplitOk(n)]_vars

\* C6: a generate call with the same n as the previous generate call of the
\* same process returns the same dataset.
C6_GenerateDeterministic ==
    [][/\ (/\ call'.op = "generate_gas_lift_data"
           /\ gas_lift_data # None
           /\ Len(gas_lift_data[1]) = call'.n) => gas_lift_data' = gas_lift_data
       /\ (/\ call'.op = "generate_choke_data"
           /\ choke_data # None
           /\ Len(choke_data[1]) = call'.n) => choke_data' = choke_data]_vars

\* C7: every row of a stored dataset has a value for every feature and for
\* the target, and its target is at least the floor 10 (100 tenths of oil,
\* 10000 thousandths of flow).
C7_TargetFloor ==
    /\ gas_lift_data # None =>
          \A i \in 1..Len(gas_lift_data[1]) :
              /\ DOMAIN gas_lift_data[1][i] =
                    {"gas_injection_rate", "pressure_diff", "water_cut",
                     "oil_production"}
              /\ gas_lift_data[1][i].oil_production >= 100
    /\ choke_data # None =>
          \A i \in 1..Len(choke_data[1]) :
              /\ DOMAIN choke_data[1][i] =
                    {"choke_size", "delta_p", "glr", "flow_rate"}
              /\ choke_data[1][i].flow_rate >= 10000

\* A stored gas-lift dataset one of whose rows had formula plus noise below
\* the floor.
C7_ClampWitness ==
    /\ gas_lift_data # None
    /\ \E s \in 0..(Period - 1), n \in 1..MaxN :
          /\ gas_lift_data = Some(gas_lift_frame(s, n))
          /\ \E i \in 1..n : gas_lift_raw(s, n)[i].oil_production < 100

\* C8: an optimize call leaves both models, both datasets and the generator
\* as they were, and made twice in a row with the same arguments it returns
\* the same result.
C8_OptimizePure ==
    [][call'.op \in OptimizeOps =>
          /\ UNCHANGED store
          /\ (/\ call.op = call'.op
              /\ call.range = call'.range
              /\ DOMAIN call.ctx = DOMAIN call'.ctx
              /\ call.ctx = call'.ctx) => (result' = result /\ err' = err)]_vars

\* Both processes generated and trained, and an optimize call has returned.
C8_OptimizeWitness ==
    /\ Returned
    /\ gas_lift_model # None /\ choke_model # None
    /\ gas_lift_data # None /\ choke_data # None

\* C9: once a surrogate is stored, no later call changes or replaces it.
C9_SurrogateImmutable ==
    [][/\ gas_lift_model # None => gas_lift_model' = gas_lift_model
       /\ choke_model # None => choke_model' = choke_model]_vars

\* C10: the dataset a process generates does not depend on the other
\* process: the first dataset of a process is the one the same call
\* produces when the other process has not run at all, that is, straight
\* from the seeded generator.
C10_ProcessesIndependent ==
    [][/\ (call'.op = "generate_choke_data" /\ choke_data = None) =>
              choke_data' = Some(choke_frame(seed(Seed), call'.n))
       /\ (call'.op = "generate_gas_lift_data" /\ gas_lift_data = None) =>
              gas_lift_data' = Some(gas_lift_frame(seed(Seed), call'.n))]_vars

=============================================================================
